---- MODULE Spec2Model ----
(***************************************************************************)
(* Model of client.py of RealChar: the AudioPlayer (queue, stop flag,      *)
(* playback worker thread), the frame dispatcher receive_message, the      *)
(* producer task with the capture executor, the session start_client and   *)
(* main.                                                                   *)
(*                                                                         *)
(* Two kinds of processes take steps.  The asyncio event loop runs one     *)
(* coroutine step at a time: cur names the coroutine that holds the loop   *)
(* (it is between two awaits) and no other coroutine or loop callback      *)
(* runs meanwhile.  What the loop itself schedules (first step of a task,  *)
(* wake-up of a cancelled task, done callback of the gather, wake-up of    *)
(* the coroutine that awaits a finished future) is kept in ready and run   *)
(* first in first out.  A coroutine that waits for the outside world (a    *)
(* frame, a line, a capture, a timer) is resumed whenever the loop is      *)
(* free.  The playback worker and the threads of the executor are OS       *)
(* threads and interleave with every statement.  A cancellation reaches a  *)
(* coroutine where it is suspended, or at its next suspension when it was  *)
(* running.                                                                *)
(***************************************************************************)
EXTENDS Integers, Sequences, FiniteSets, TLC

\* ---------------------------------------------------------------- bounds
MaxFrames == 3      \* inbound frames delivered to receive_message
MaxItems == 2       \* binary frames among them (items given to start_playing)
MaxSends == 1       \* messages sent by the producer task
MaxRequests == 5    \* capture calls handed to the executor

\* ------------------------------------------------------------- constants
None == 0           \* play_thread = None
MaxWorkers == 3     \* ThreadPoolExecutor(max_workers=3)

Threads == 1..MaxItems          \* every start_playing spawns at most one thread
Tasks == {"recv", "send"}
TaskTerminal == {"done", "failed", "cancelled"}
SessTerminal == {"done", "failed", "cancelled"}

\* text is a sequence of one-character strings
Prefix == <<"[", "+", "]">>
EndMarker == <<"[", "e", "n", "d", "]", "\n">>
Newline == <<"\n">>

TextBodies ==
  { EndMarker,
    <<"[", "+", "]", "o", "k">>,
    <<"[", "+">>,
    <<"h", "i">> }

\* a binary frame: decodable, undecodable mp3, or mp3 whose wav the player rejects
AudioBodies == { <<"ok">>, <<"bad_mp3">>, <<"bad_wav">> }

NoMsg == [kind |-> "none", body |-> <<>>]
NoItem == [id |-> 0, ok |-> TRUE]
NoPrint == [kind |-> "none", text |-> <<>>, end |-> <<>>, src |-> <<>>]
Unborn == [st |-> "unborn", pc |-> "loop", cur |-> NoItem]

VARIABLES
  \* AudioPlayer
  play_thread, stop_flag, queue,
  \* threads created by start_playing, and what the audio device is playing
  thr, nThreads, sounding,
  \* receive_message: position, the frame being handled (NoMsg between two
  \* frames), last thing it printed
  rpc, msg, console, nFrames, nItems,
  \* event loop: the coroutine that holds it, the handles it is to run
  cur, ready,
  \* connection, tasks, gather
  conn, task, cancelReq, gatherSeen,
  \* producer
  ppc, nSent, wireOut,
  \* start_client (sessMust: a cancellation it is to raise itself; outcome:
  \* how the gather future completed, then how start_client leaves) and main
  sessPc, sessCancel, sessMust, mode, hs, outcome, mainPc, interrupted, shutdown,
  \* history: items whose playback was started; items queued when a stop began
  started, discarded,
  \* history: number of inbound frames whose handling is complete
  routed,
  \* the capture executor: state of each submitted call, calls waiting for a worker
  poolReq, poolQueue

vars == << play_thread, stop_flag, queue, thr, nThreads, sounding,
           rpc, msg, console, nFrames, nItems, cur, ready,
           conn, task, cancelReq, gatherSeen,
           ppc, nSent, wireOut,
           sessPc, sessCancel, sessMust, mode, hs, outcome, mainPc, interrupted, shutdown,
           started, discarded, routed, poolReq, poolQueue >>

poolVars == << poolReq, poolQueue >>
coreVars == << play_thread, stop_flag, queue, thr, nThreads, sounding,
               rpc, msg, console, nFrames, nItems, cur, ready,
               conn, task, cancelReq, gatherSeen,
               ppc, nSent, wireOut,
               sessPc, sessCancel, sessMust, mode, hs, outcome, mainPc, interrupted, shutdown,
               started, discarded, routed >>
playerVars == << play_thread, stop_flag, queue >>
threadVars == << thr, nThreads, sounding, started >>
dispVars == << rpc, msg, console, nFrames, nItems, routed >>
loopVars == << cur, ready >>
prodVars == << ppc, nSent, wireOut >>
sessVars == << sessPc, sessCancel, sessMust, mode, hs, outcome >>
mainVars == << mainPc, interrupted, shutdown >>

\* ---------------------------------------------------------- pure helpers
StartsWith(s, p) ==
  /\ Len(s) >= Len(p)
  /\ SubSeq(s, 1, Len(p)) = p

IsAlive(t) == thr[t].st = "alive"

AliveThreads == { t \in Threads : IsAlive(t) }

\* ------------------------------------------------------------- event loop
\* a handle of the ready queue: the first step of task t ("start"), the
\* wake-up of t ("wake"), the done callback that the gather put on t ("cb")
Handle(k, t) == [k |-> k, t |-> t]

\* a step of coroutine t is in the ready queue
InReady(t) ==
  \E i \in 1..Len(ready) : ready[i].t = t /\ ready[i].k \in {"start", "wake"}

\* no coroutine holds the loop: it can run a handle or resume a coroutine
LoopFree == cur = "none"

\* the loop runs the handle at the head of the ready queue
AtHead(k, t) == LoopFree /\ ready # <<>> /\ Head(ready) = Handle(k, t)

\* the handle at the head is a step of coroutine t
Resumes(t) == LoopFree /\ ready # <<>> /\ Head(ready).t = t /\ Head(ready).k # "cb"

\* task t waits for the outside world and can be resumed by it
Suspended(t) ==
  /\ task[t] = "running"
  /\ LoopFree
  /\ ~InReady(t)
  /\ ~cancelReq[t]

\* the ready queue q after task t has ended: a gather that is not over has
\* its done callback scheduled
TaskEnds(t, q) ==
  IF sessPc = "gather" /\ outcome = "none" THEN Append(q, Handle("cb", t)) ELSE q

\* the ready queue q after running task t has reached an await that
\* suspends it: a cancellation asked while it ran cancels what it waits for,
\* which schedules its wake-up
TaskSuspends(t, q) ==
  IF cancelReq[t] THEN Append(q, Handle("wake", t)) ELSE q

\* Task.cancel on a task that waits for the outside world schedules its
\* wake-up; a task that runs, or whose step is already scheduled, only keeps
\* the request
NeedsWake(t) == task[t] = "running" /\ cur # t /\ ~InReady(t)

\* the ready queue q after the tasks of o were cancelled in that order
WakeInOrder(q, o) ==
  LET q1 == IF NeedsWake(o[1]) THEN Append(q, Handle("wake", o[1])) ELSE q
  IN IF NeedsWake(o[2]) THEN Append(q1, Handle("wake", o[2])) ELSE q1

\* ------------------------------------------------------------ AudioPlayer
\* __init__
PlayerInit ==
  /\ play_thread = None
  /\ stop_flag = FALSE
  /\ queue = <<>>

\* play_audio: the while condition
WorkerContinue == ~stop_flag \/ queue # <<>>

\* queue.get_nowait on a non-empty queue: the item taken and the rest
QueueGet(q) == [item |-> Head(q), rest |-> Tail(q)]

\* play_audio: loop head.  With an empty queue and no stop the worker spins
\* (get_nowait raises Empty, continue): that iteration changes nothing.
WorkerLoop(t) ==
  /\ IsAlive(t)
  /\ thr[t].pc = "loop"
  /\ IF ~WorkerContinue
       THEN /\ thr' = [thr EXCEPT ![t].st = "dead"]
            /\ UNCHANGED queue
       ELSE /\ queue # <<>>
            /\ thr' = [thr EXCEPT ![t].pc = "open", ![t].cur = QueueGet(queue).item]
            /\ queue' = QueueGet(queue).rest
  /\ UNCHANGED << play_thread, stop_flag, nThreads, sounding, started, discarded >>
  /\ UNCHANGED << dispVars, loopVars, conn, task, cancelReq, gatherSeen, prodVars, sessVars, mainVars >>
  /\ UNCHANGED poolVars

\* play_audio: WaveObject.from_wave_file and wave_obj.play.  Neither is guarded:
\* an exception ends the thread.
WorkerOpen(t) ==
  /\ IsAlive(t)
  /\ thr[t].pc = "open"
  /\ IF thr[t].cur.ok
       THEN /\ thr' = [thr EXCEPT ![t].pc = "playing"]
            /\ sounding' = sounding \cup {thr[t].cur.id}
            /\ started' = Append(started, thr[t].cur.id)
       ELSE /\ thr' = [thr EXCEPT ![t].st = "crashed"]
            /\ UNCHANGED << sounding, started >>
  /\ UNCHANGED << playerVars, nThreads, discarded >>
  /\ UNCHANGED << dispVars, loopVars, conn, task, cancelReq, gatherSeen, prodVars, sessVars, mainVars >>
  /\ UNCHANGED poolVars

\* play_audio: the inner wait loop ends when the sound is over or a stop is asked
WorkerWait(t) ==
  /\ IsAlive(t)
  /\ thr[t].pc = "playing"
  /\ ~(thr[t].cur.id \in sounding /\ ~stop_flag)
  /\ thr' = [thr EXCEPT ![t].pc = "after"]
  /\ UNCHANGED << playerVars, nThreads, sounding, started, discarded >>
  /\ UNCHANGED << dispVars, loopVars, conn, task, cancelReq, gatherSeen, prodVars, sessVars, mainVars >>
  /\ UNCHANGED poolVars

\* play_audio: if self.stop_flag: play_obj.stop()
WorkerAfter(t) ==
  /\ IsAlive(t)
  /\ thr[t].pc = "after"
  /\ sounding' = IF stop_flag THEN sounding \ {thr[t].cur.id} ELSE sounding
  /\ thr' = [thr EXCEPT ![t].pc = "loop", ![t].cur = NoItem]
  /\ UNCHANGED << playerVars, nThreads, started, discarded >>
  /\ UNCHANGED << dispVars, loopVars, conn, task, cancelReq, gatherSeen, prodVars, sessVars, mainVars >>
  /\ UNCHANGED poolVars

\* the audio device reaches the end of a buffer: play_obj.is_playing() turns false
PlaybackEnds(i) ==
  /\ i \in sounding
  /\ sounding' = sounding \ {i}
  /\ UNCHANGED << playerVars, thr, nThreads, started, discarded >>
  /\ UNCHANGED << dispVars, loopVars, conn, task, cancelReq, gatherSeen, prodVars, sessVars, mainVars >>
  /\ UNCHANGED poolVars

\* start_playing: the test that decides whether a thread is created
NeedSpawnAlways == TRUE

NeedSpawn == play_thread = None \/ ~IsAlive(play_thread)

\* stop_playing: the test that decides whether there is a thread to stop
StopNeeded == play_thread # None /\ IsAlive(play_thread)

\* stop_playing: play_thread.join() returns
JoinNoWait == TRUE

JoinReturns == ~IsAlive(play_thread)

\* --------------------------------------------------------- receive_message
\* the branch of a text frame, with the test for the turn-end marker left out
ClassifyNoEnd(m) ==
  IF StartsWith(m, Prefix) THEN "interrupt" ELSE "plain"

\* the branch a text frame takes: if / elif / else of receive_message
Classify(m) ==
  IF m = EndMarker THEN "prompt"
  ELSE IF StartsWith(m, Prefix) THEN "interrupt"
  ELSE "plain"

\* what print shows for a frame that starts with "[+]": the frame itself
InterruptText(m) == m

PromptText == <<"\n", "Y", "o", "u", ":", " ">>

\* the wav buffer handed to start_playing for the binary frame being handled
CurItem == [id |-> nItems, ok |-> msg.body = <<"ok">>]

\* receive_message asks for the next frame only at the head of its loop,
\* after the handling of the previous frame has returned
AtRecvEarly == rpc \in {"recv", "sp_put", "join"}

AtRecv == rpc = "recv"

\* the first step of receive_message: it runs up to websocket.recv()
DispStart ==
  /\ task["recv"] = "running"
  /\ Resumes("recv")
  /\ ~cancelReq["recv"]
  /\ cur' = "recv"
  /\ ready' = Tail(ready)
  /\ UNCHANGED dispVars
  /\ UNCHANGED << playerVars, threadVars, discarded, conn, task, cancelReq, gatherSeen >>
  /\ UNCHANGED << prodVars, sessVars, mainVars >>
  /\ UNCHANGED poolVars

\* receive_message is resumed with a cancellation requested (in
\* websocket.recv(), or before its first statement): CancelledError is
\* raised, nothing catches it
DispCancelled ==
  /\ task["recv"] = "running"
  /\ Resumes("recv")
  /\ cancelReq["recv"]
  /\ task' = [task EXCEPT !["recv"] = "cancelled"]
  /\ rpc' = "exit"
  /\ ready' = TaskEnds("recv", Tail(ready))
  /\ UNCHANGED << msg, console, nFrames, nItems, routed, cur >>
  /\ UNCHANGED << playerVars, threadVars, discarded, conn, cancelReq, gatherSeen >>
  /\ UNCHANGED << prodVars, sessVars, mainVars >>
  /\ UNCHANGED poolVars

\* websocket.recv() has no frame to return and suspends receive_message; a
\* cancellation asked while receive_message was running is now due at its
\* wake-up
DispSuspend ==
  /\ task["recv"] = "running"
  /\ cur = "recv"
  /\ rpc = "recv"
  /\ cur' = "none"
  /\ ready' = TaskSuspends("recv", ready)
  /\ UNCHANGED dispVars
  /\ UNCHANGED << playerVars, threadVars, discarded, conn, task, cancelReq, gatherSeen >>
  /\ UNCHANGED << prodVars, sessVars, mainVars >>
  /\ UNCHANGED poolVars

\* websocket.recv() gives control back to receive_message: at once when
\* receive_message is running (the frame was buffered), or by resuming it
\* when it was suspended with no cancellation requested
RecvReturns ==
  /\ task["recv"] = "running"
  /\ cur = "recv" \/ Suspended("recv")

\* websocket.recv() returns a frame.  A cancellation asked while
\* receive_message was between two awaits is delivered only when recv
\* suspends: a frame that is already buffered is still returned.
DispRecvFrame(m) ==
  /\ RecvReturns
  /\ AtRecv
  /\ conn = "open"
  /\ nFrames < MaxFrames
  /\ m.kind = "bytes" => nItems < MaxItems
  /\ msg' = m
  /\ nFrames' = nFrames + 1
  /\ rpc' = "dispatch"
  /\ cur' = "recv"
  /\ UNCHANGED << console, nItems, routed, ready >>
  /\ UNCHANGED << playerVars, threadVars, discarded, conn, task, cancelReq, gatherSeen >>
  /\ UNCHANGED << prodVars, sessVars, mainVars >>
  /\ UNCHANGED poolVars

\* a coroutine that returns while its cancellation is still to be delivered
\* ends as cancelled
ReturnState == IF cancelReq["recv"] THEN "cancelled" ELSE "done"

\* the two except clauses around websocket.recv()
RecvErrors == {"closed", "error"}

\* websocket.recv() raises: the except clause prints its line and breaks
DispRecvError(e) ==
  /\ RecvReturns
  /\ rpc = "recv"
  /\ conn' = "closed"
  /\ console' = [kind |-> e, text |-> IF e = "closed" THEN <<"C">> ELSE <<"E">>,
                 end |-> Newline, src |-> <<>>]
  /\ task' = [task EXCEPT !["recv"] = ReturnState]
  /\ rpc' = "exit"
  /\ cur' = "none"
  /\ ready' = TaskEnds("recv", ready)
  /\ UNCHANGED << msg, nFrames, nItems, routed >>
  /\ UNCHANGED << playerVars, threadVars, discarded, cancelReq, gatherSeen >>
  /\ UNCHANGED << prodVars, sessVars, mainVars >>
  /\ UNCHANGED poolVars

\* isinstance(message, str)
DispText ==
  /\ task["recv"] = "running"
  /\ rpc = "dispatch"
  /\ msg.kind = "text"
  /\ IF Classify(msg.body) = "prompt"
       THEN /\ console' = [kind |-> "prompt", text |-> PromptText, end |-> <<>>,
                           src |-> msg.body]
            /\ rpc' = "recv"
       ELSE IF Classify(msg.body) = "interrupt"
       THEN /\ rpc' = "stop"
            /\ UNCHANGED console
       ELSE /\ console' = [kind |-> "plain", text |-> msg.body, end |-> <<>>,
                           src |-> msg.body]
            /\ rpc' = "recv"
  /\ msg' = IF Classify(msg.body) = "interrupt" THEN msg ELSE NoMsg
  /\ UNCHANGED << nFrames, nItems >>
  /\ UNCHANGED << playerVars, threadVars, discarded, conn, task, cancelReq, gatherSeen >>
  /\ UNCHANGED << prodVars, sessVars, mainVars >>
  /\ routed' = IF Classify(msg.body) = "interrupt" THEN routed ELSE routed + 1
  /\ UNCHANGED loopVars
  /\ UNCHANGED poolVars

\* isinstance(message, bytes): AudioSegment.from_mp3 and export are not
\* guarded, an undecodable frame raises out of receive_message
DispBytes ==
  /\ task["recv"] = "running"
  /\ rpc = "dispatch"
  /\ msg.kind = "bytes"
  /\ IF msg.body = <<"bad_mp3">>
       THEN /\ task' = [task EXCEPT !["recv"] = "failed"]
            /\ rpc' = "exit"
            /\ UNCHANGED nItems
       ELSE /\ nItems' = nItems + 1
            /\ rpc' = "sp_flag"
            /\ UNCHANGED task
  /\ cur' = IF msg.body = <<"bad_mp3">> THEN "none" ELSE cur
  /\ ready' = IF msg.body = <<"bad_mp3">> THEN TaskEnds("recv", ready) ELSE ready
  /\ msg' = IF msg.body = <<"bad_mp3">> THEN NoMsg ELSE msg
  /\ UNCHANGED << console, nFrames >>
  /\ UNCHANGED << playerVars, threadVars, discarded, conn, cancelReq, gatherSeen >>
  /\ UNCHANGED << prodVars, sessVars, mainVars >>
  /\ UNCHANGED routed
  /\ UNCHANGED poolVars

\* else: print("Unexpected message"); break
DispOther ==
  /\ task["recv"] = "running"
  /\ rpc = "dispatch"
  /\ msg.kind = "other"
  /\ console' = [kind |-> "unexpected", text |-> <<"U">>, end |-> Newline,
                 src |-> msg.body]
  /\ task' = [task EXCEPT !["recv"] = ReturnState]
  /\ rpc' = "exit"
  /\ cur' = "none"
  /\ ready' = TaskEnds("recv", ready)
  /\ msg' = NoMsg
  /\ UNCHANGED << nFrames, nItems >>
  /\ UNCHANGED << playerVars, threadVars, discarded, conn, cancelReq, gatherSeen >>
  /\ UNCHANGED << prodVars, sessVars, mainVars >>
  /\ UNCHANGED routed
  /\ UNCHANGED poolVars

\* start_playing: self.stop_flag = False
SpFlag ==
  /\ task["recv"] = "running"
  /\ rpc = "sp_flag"
  /\ stop_flag' = FALSE
  /\ rpc' = "sp_put"
  /\ UNCHANGED << play_thread, queue, msg, console, nFrames, nItems >>
  /\ UNCHANGED << threadVars, discarded, conn, task, cancelReq, gatherSeen >>
  /\ UNCHANGED << prodVars, sessVars, mainVars >>
  /\ UNCHANGED << routed, loopVars >>
  /\ UNCHANGED poolVars

\* start_playing: self.queue.put(wav_data)
SpPut ==
  /\ task["recv"] = "running"
  /\ rpc = "sp_put"
  /\ queue' = Append(queue, CurItem)
  /\ rpc' = "sp_spawn"
  /\ UNCHANGED << play_thread, stop_flag, msg, console, nFrames, nItems >>
  /\ UNCHANGED << threadVars, discarded, conn, task, cancelReq, gatherSeen >>
  /\ UNCHANGED << prodVars, sessVars, mainVars >>
  /\ UNCHANGED << routed, loopVars >>
  /\ UNCHANGED poolVars

\* add_to_queue: self.queue.put(wav_data), with no change of the stop flag and
\* no thread created.  No statement of the program calls it, so it is no
\* step of Next.
AddToQueue(item) ==
  /\ queue' = Append(queue, item)
  /\ UNCHANGED << play_thread, stop_flag >>
  /\ UNCHANGED << threadVars, discarded, dispVars, loopVars, conn, task, cancelReq, gatherSeen >>
  /\ UNCHANGED << prodVars, sessVars, mainVars >>
  /\ UNCHANGED poolVars

\* start_playing: create and start the thread when none is alive
SpSpawn ==
  /\ task["recv"] = "running"
  /\ rpc = "sp_spawn"
  /\ IF NeedSpawn
       THEN /\ nThreads' = nThreads + 1
            /\ play_thread' = nThreads + 1
            /\ thr' = [thr EXCEPT ![nThreads + 1] =
                         [st |-> "alive", pc |-> "loop", cur |-> NoItem]]
       ELSE UNCHANGED << nThreads, play_thread, thr >>
  /\ rpc' = "recv"
  /\ msg' = NoMsg
  /\ UNCHANGED << stop_flag, queue, console, nFrames, nItems >>
  /\ UNCHANGED << sounding, started, discarded, conn, task, cancelReq, gatherSeen >>
  /\ UNCHANGED << prodVars, sessVars, mainVars >>
  /\ routed' = routed + 1
  /\ UNCHANGED loopVars
  /\ UNCHANGED poolVars

\* stop_playing: the test and self.stop_flag = True
StopBegin ==
  /\ task["recv"] = "running"
  /\ rpc = "stop"
  /\ discarded' = discarded \cup { queue[k].id : k \in 1..Len(queue) }
  /\ IF StopNeeded
       THEN /\ stop_flag' = TRUE
            /\ rpc' = "join"
       ELSE /\ rpc' = "display"
            /\ UNCHANGED stop_flag
  /\ UNCHANGED << play_thread, queue, msg, console, nFrames, nItems >>
  /\ UNCHANGED << threadVars, conn, task, cancelReq, gatherSeen >>
  /\ UNCHANGED << prodVars, sessVars, mainVars >>
  /\ UNCHANGED << routed, loopVars >>
  /\ UNCHANGED poolVars

\* stop_playing: self.play_thread.join(); self.play_thread = None
StopJoin ==
  /\ task["recv"] = "running"
  /\ rpc = "join"
  /\ JoinReturns
  /\ play_thread' = None
  /\ rpc' = "display"
  /\ UNCHANGED << stop_flag, queue, msg, console, nFrames, nItems >>
  /\ UNCHANGED << threadVars, discarded, conn, task, cancelReq, gatherSeen >>
  /\ UNCHANGED << prodVars, sessVars, mainVars >>
  /\ UNCHANGED << routed, loopVars >>
  /\ UNCHANGED poolVars

\* print(f"{message}", end="\n") after stop_playing has returned
DispDisplay ==
  /\ task["recv"] = "running"
  /\ rpc = "display"
  /\ console' = [kind |-> "interrupt", text |-> InterruptText(msg.body),
                 end |-> Newline, src |-> msg.body]
  /\ rpc' = "recv"
  /\ msg' = NoMsg
  /\ UNCHANGED << nFrames, nItems >>
  /\ UNCHANGED << playerVars, threadVars, discarded, conn, task, cancelReq, gatherSeen >>
  /\ UNCHANGED << prodVars, sessVars, mainVars >>
  /\ routed' = routed + 1
  /\ UNCHANGED loopVars
  /\ UNCHANGED poolVars

\* ---------------------------------------------------------------- executor
\* executor = ThreadPoolExecutor(max_workers=3), used by handle_audio through
\* run_in_executor(executor, listen_func).  A call is queued when submitted,
\* taken by a worker thread when one is free, and runs until listen returns.
Requests == 1..MaxRequests

PoolInit ==
  /\ poolReq = [r \in Requests |-> "none"]
  /\ poolQueue = <<>>

PoolRunning == { r \in Requests : poolReq[r] = "running" }

\* the call submitted last (0 when none was)
PoolLast ==
  IF \A r \in Requests : poolReq[r] = "none" THEN 0
  ELSE CHOOSE r \in Requests :
         /\ poolReq[r] # "none"
         /\ \A q \in Requests : q > r => poolReq[q] = "none"

\* a worker thread is free, or may still be created, to take a queued call
PoolThreadPerCall == TRUE

PoolHasFreeWorker == Cardinality(PoolRunning) < MaxWorkers

\* executor.submit: the call is put on the work queue
PoolPut(r) ==
  /\ poolReq[r] = "none"
  /\ \A q \in Requests : q < r => poolReq[q] # "none"
  /\ poolReq' = [poolReq EXCEPT ![r] = "queued"]
  /\ poolQueue' = Append(poolQueue, r)

\* the executor used on its own: a call is submitted whatever the state of
\* the calls submitted before
PoolSubmit(r) ==
  /\ PoolPut(r)
  /\ UNCHANGED coreVars

\* a worker thread takes the oldest queued call and runs it
PoolStart ==
  /\ poolQueue # <<>>
  /\ PoolHasFreeWorker
  /\ poolReq' = [poolReq EXCEPT ![Head(poolQueue)] = "running"]
  /\ poolQueue' = Tail(poolQueue)
  /\ UNCHANGED coreVars

\* recognizer.listen returns: the worker thread is free again
PoolComplete(r) ==
  /\ poolReq[r] = "running"
  /\ poolReq' = [poolReq EXCEPT ![r] = "done"]
  /\ UNCHANGED << poolQueue, coreVars >>

PoolNext ==
  \/ \E r \in Requests : PoolSubmit(r)
  \/ PoolStart
  \/ \E r \in Requests : PoolComplete(r)

\* ------------------------------------------------- handle_text / handle_audio
\* the first step of the producer task.  handle_text prints its prompt and
\* is suspended in ainput(); handle_audio starts to open and calibrate the
\* microphone, which blocks the loop.
ProdStart ==
  /\ task["send"] = "running"
  /\ Resumes("send")
  /\ ~cancelReq["send"]
  /\ ppc = "start"
  /\ ready' = Tail(ready)
  /\ ppc' = IF mode = "a" THEN "setup" ELSE "wait"
  /\ cur' = IF mode = "a" THEN "send" ELSE "none"
  /\ UNCHANGED << nSent, wireOut >>
  /\ UNCHANGED << playerVars, threadVars, discarded, dispVars, conn, task, cancelReq, gatherSeen >>
  /\ UNCHANGED << sessVars, mainVars >>
  /\ UNCHANGED poolVars

\* the producer task is resumed with a cancellation requested: CancelledError
\* is raised at the await where it was suspended (ainput, the capture, the
\* sleep) or before its first statement.  The future of run_in_executor
\* cancels a call that no worker has taken yet; a call that is running goes
\* on in its thread.
ProdCancelled ==
  /\ task["send"] = "running"
  /\ Resumes("send")
  /\ cancelReq["send"]
  /\ task' = [task EXCEPT !["send"] = "cancelled"]
  /\ IF ppc = "capture" /\ poolReq[PoolLast] = "queued"
       THEN /\ poolReq' = [poolReq EXCEPT ![PoolLast] = "cancelled"]
            /\ poolQueue' = SelectSeq(poolQueue, LAMBDA r : r # PoolLast)
       ELSE UNCHANGED poolVars
  /\ ppc' = "exit"
  /\ ready' = TaskEnds("send", Tail(ready))
  /\ UNCHANGED << nSent, wireOut, cur >>
  /\ UNCHANGED << playerVars, threadVars, discarded, dispVars, conn, cancelReq, gatherSeen >>
  /\ UNCHANGED << sessVars, mainVars >>

\* handle_audio: the microphone is opened and calibrated before the loop, in
\* blocking calls; an error there is not caught.  A cancellation asked
\* meanwhile does not stop it.
ProdSetup ==
  /\ task["send"] = "running"
  /\ cur = "send"
  /\ ppc = "setup"
  /\ \/ /\ ppc' = "wait"
        /\ UNCHANGED << task, loopVars >>
     \/ /\ task' = [task EXCEPT !["send"] = "failed"]
        /\ ppc' = "exit"
        /\ cur' = "none"
        /\ ready' = TaskEnds("send", ready)
  /\ UNCHANGED << nSent, wireOut >>
  /\ UNCHANGED << playerVars, threadVars, discarded, dispVars, conn, cancelReq, gatherSeen >>
  /\ UNCHANGED << sessVars, mainVars >>
  /\ UNCHANGED poolVars

\* handle_audio: run_in_executor(executor, listen_func) submits the capture
\* and the await suspends the task
ProdSubmit(r) ==
  /\ task["send"] = "running"
  /\ cur = "send"
  /\ mode = "a"
  /\ ppc = "wait"
  /\ PoolPut(r)
  /\ ppc' = "capture"
  /\ cur' = "none"
  /\ ready' = TaskSuspends("send", ready)
  /\ UNCHANGED << nSent, wireOut >>
  /\ UNCHANGED << playerVars, threadVars, discarded, dispVars, conn, task, cancelReq, gatherSeen >>
  /\ UNCHANGED << sessVars, mainVars >>

\* handle_audio: the capture is over, the await returns the audio or raises
\* what listen raised
ProdCaptured ==
  /\ Suspended("send")
  /\ ppc = "capture"
  /\ poolReq[PoolLast] = "done"
  /\ \/ /\ ppc' = "send"
        /\ cur' = "send"
        /\ UNCHANGED << task, ready >>
     \/ /\ task' = [task EXCEPT !["send"] = "failed"]
        /\ ppc' = "exit"
        /\ ready' = TaskEnds("send", ready)
        /\ UNCHANGED cur
  /\ UNCHANGED << nSent, wireOut >>
  /\ UNCHANGED << playerVars, threadVars, discarded, dispVars, conn, cancelReq, gatherSeen >>
  /\ UNCHANGED << sessVars, mainVars >>
  /\ UNCHANGED poolVars

\* handle_text: await ainput() returns a line
ProdInput ==
  /\ Suspended("send")
  /\ mode = "t"
  /\ ppc = "wait"
  /\ nSent < MaxSends
  /\ ppc' = "send"
  /\ cur' = "send"
  /\ UNCHANGED << nSent, wireOut, ready >>
  /\ UNCHANGED << playerVars, threadVars, discarded, dispVars, conn, task, cancelReq, gatherSeen >>
  /\ UNCHANGED << sessVars, mainVars >>
  /\ UNCHANGED poolVars

\* handle_text: ainput() raises (end of input): nothing catches it
ProdInputFails ==
  /\ Suspended("send")
  /\ mode = "t"
  /\ ppc = "wait"
  /\ task' = [task EXCEPT !["send"] = "failed"]
  /\ ppc' = "exit"
  /\ ready' = TaskEnds("send", ready)
  /\ UNCHANGED << nSent, wireOut, cur >>
  /\ UNCHANGED << playerVars, threadVars, discarded, dispVars, conn, cancelReq, gatherSeen >>
  /\ UNCHANGED << sessVars, mainVars >>
  /\ UNCHANGED poolVars

\* await websocket.send(...), reached without a suspension since the line or
\* the audio came back: the message is written, then the task is suspended
\* at its next await (ainput, sleep).  On a closed connection send raises,
\* nothing catches it.  A cancellation asked since the task was resumed is
\* delivered at that next await, after the message was written.
ProdSend ==
  /\ task["send"] = "running"
  /\ cur = "send"
  /\ ppc = "send"
  /\ \/ /\ conn = "open"
        /\ wireOut' = Append(wireOut, IF mode = "a" THEN "audio" ELSE "text")
        /\ nSent' = nSent + 1
        /\ ppc' = IF mode = "a" THEN "sleep" ELSE "wait"
        /\ ready' = TaskSuspends("send", ready)
        /\ UNCHANGED << task, conn >>
     \/ /\ conn' = "closed"
        /\ task' = [task EXCEPT !["send"] = "failed"]
        /\ ppc' = "exit"
        /\ ready' = TaskEnds("send", ready)
        /\ UNCHANGED << nSent, wireOut >>
  /\ cur' = "none"
  /\ UNCHANGED << playerVars, threadVars, discarded, dispVars, cancelReq, gatherSeen >>
  /\ UNCHANGED << sessVars, mainVars >>
  /\ UNCHANGED poolVars

\* handle_audio: await asyncio.sleep(2) returns and the loop of handle_audio
\* goes on to the next capture
ProdSleep ==
  /\ Suspended("send")
  /\ ppc = "sleep"
  /\ ppc' = "wait"
  /\ cur' = "send"
  /\ UNCHANGED << nSent, wireOut, ready >>
  /\ UNCHANGED << playerVars, threadVars, discarded, dispVars, conn, task, cancelReq, gatherSeen >>
  /\ UNCHANGED << sessVars, mainVars >>
  /\ UNCHANGED poolVars

\* ------------------------------------------------------------ start_client
\* the statements of start_client in program order
HandshakeOrder ==
  << "recv_welcome", "send_companion", "input_mode", "create_tasks", "gather" >>

After(pc) ==
  HandshakeOrder[(CHOOSE k \in 1..Len(HandshakeOrder) : HandshakeOrder[k] = pc) + 1]

\* how start_client leaves the async with block when it raises or returns
\* x: a cancellation it still has to raise itself is raised when the exit of
\* the block waits for the connection to close
LeavesWith(x) == IF sessMust THEN "cancelled" ELSE x

\* welcome_message = await websocket.recv() finds no frame yet and
\* suspends start_client
SessAwaitWelcome ==
  /\ sessPc = "recv_welcome"
  /\ cur = "sess"
  /\ cur' = "none"
  /\ UNCHANGED << sessVars, ready, conn >>
  /\ UNCHANGED << playerVars, threadVars, discarded, dispVars, task, cancelReq, gatherSeen >>
  /\ UNCHANGED << prodVars, mainVars >>
  /\ UNCHANGED poolVars

\* welcome_message = await websocket.recv() returns the greeting or raises:
\* at once while start_client runs (the frame or the close was already
\* there; a cancellation asked meanwhile stays pending), or by resuming
\* start_client when it was suspended with no cancellation requested
SessRecvWelcome ==
  /\ sessPc = "recv_welcome"
  /\ cur = "sess" \/ (LoopFree /\ ~sessMust)
  /\ \/ /\ hs' = Append(hs, "recv_greeting")
        /\ sessPc' = After("recv_welcome")
        /\ cur' = "sess"
        /\ UNCHANGED outcome
     \/ /\ sessPc' = "closing"
        /\ outcome' = LeavesWith("failed")
        /\ cur' = "none"
        /\ UNCHANGED hs
  /\ UNCHANGED << sessCancel, sessMust, mode, ready, conn >>
  /\ UNCHANGED << playerVars, threadVars, discarded, dispVars, task, cancelReq, gatherSeen >>
  /\ UNCHANGED << prodVars, mainVars >>
  /\ UNCHANGED poolVars

\* start_client is suspended in its first await with a cancellation
\* requested: CancelledError is raised there
SessCancelled ==
  /\ sessPc = "recv_welcome"
  /\ LoopFree
  /\ sessMust
  /\ sessPc' = "closing"
  /\ outcome' = "cancelled"
  /\ UNCHANGED << sessCancel, sessMust, mode, hs, loopVars, conn >>
  /\ UNCHANGED << playerVars, threadVars, discarded, dispVars, task, cancelReq, gatherSeen >>
  /\ UNCHANGED << prodVars, mainVars >>
  /\ UNCHANGED poolVars

\* companion = input(...); await websocket.send(companion).  input can raise
\* (end of input) and send can raise (connection lost): start_client catches
\* neither.  A cancellation asked during input stays pending: it is delivered
\* in the send only when the send suspends, which is after the frame was
\* written.
SessSendCompanion ==
  /\ sessPc = "send_companion"
  /\ \/ /\ hs' = Append(hs, "send_companion")
        /\ wireOut' = Append(wireOut, "companion")
        /\ sessPc' = After("send_companion")
        /\ cur' = "sess"
        /\ UNCHANGED outcome
     \/ /\ sessMust
        /\ hs' = Append(hs, "send_companion")
        /\ wireOut' = Append(wireOut, "companion")
        /\ sessPc' = "closing"
        /\ outcome' = "cancelled"
        /\ cur' = "none"
     \/ /\ sessPc' = "closing"
        /\ outcome' = LeavesWith("failed")
        /\ cur' = "none"
        /\ UNCHANGED << hs, wireOut >>
  /\ UNCHANGED << sessCancel, sessMust, mode, ppc, nSent, ready, conn >>
  /\ UNCHANGED << playerVars, threadVars, discarded, dispVars, task, cancelReq, gatherSeen >>
  /\ UNCHANGED mainVars
  /\ UNCHANGED poolVars

\* mode = input(...): read from the operator, used only to choose the
\* producer; in audio mode get_input_device_id is called next
SessInputMode(m) ==
  /\ sessPc = "input_mode"
  /\ mode' = m
  /\ hs' = Append(hs, "input_mode")
  /\ sessPc' = IF m = "a" THEN "device_id" ELSE After("input_mode")
  /\ UNCHANGED << sessCancel, sessMust, outcome, loopVars, conn >>
  /\ UNCHANGED << playerVars, threadVars, discarded, dispVars, task, cancelReq, gatherSeen >>
  /\ UNCHANGED << prodVars, mainVars >>
  /\ UNCHANGED poolVars

\* mode = input(...) raises (end of input): start_client does not catch it
SessInputModeFails ==
  /\ sessPc = "input_mode"
  /\ sessPc' = "closing"
  /\ outcome' = LeavesWith("failed")
  /\ cur' = "none"
  /\ UNCHANGED << sessCancel, sessMust, mode, hs, ready, conn >>
  /\ UNCHANGED << playerVars, threadVars, discarded, dispVars, task, cancelReq, gatherSeen >>
  /\ UNCHANGED << prodVars, mainVars >>
  /\ UNCHANGED poolVars

\* get_input_device_id: int(input(...)) returns the id, or raises on an
\* answer that is not a number or on end of input
GetInputDeviceId ==
  /\ sessPc = "device_id"
  /\ \/ /\ sessPc' = After("input_mode")
        /\ UNCHANGED << outcome, cur >>
     \/ /\ sessPc' = "closing"
        /\ outcome' = LeavesWith("failed")
        /\ cur' = "none"
  /\ UNCHANGED << sessCancel, sessMust, mode, hs, ready, conn >>
  /\ UNCHANGED << playerVars, threadVars, discarded, dispVars, task, cancelReq, gatherSeen >>
  /\ UNCHANGED << prodVars, mainVars >>
  /\ UNCHANGED poolVars

\* send_task = create_task(...); receive_task = create_task(...): the first
\* step of each task is scheduled, in that order.
\* await asyncio.gather(receive_task, send_task) suspends start_client.  A
\* cancellation that was pending is delivered to the gather at that point and
\* is requested of both tasks before their first step.
SessCreateTasks ==
  /\ sessPc = "create_tasks"
  /\ task' = [t \in Tasks |-> "running"]
  /\ cancelReq' = [t \in Tasks |-> sessMust]
  /\ sessMust' = FALSE
  /\ ppc' = "start"
  /\ sessPc' = After("create_tasks")
  /\ cur' = "none"
  /\ ready' = ready \o << Handle("start", "send"), Handle("start", "recv") >>
  /\ UNCHANGED << sessCancel, mode, hs, outcome, nSent, wireOut >>
  /\ UNCHANGED << playerVars, threadVars, discarded, dispVars, conn, gatherSeen >>
  /\ UNCHANGED mainVars
  /\ UNCHANGED poolVars

\* gather without return_exceptions: the exception of a child is set on the
\* gather future as soon as that child is over
ChildRaisesIgnored(t) == FALSE

ChildRaises(t) == task[t] = "failed"

\* the cancellation of start_client was passed on to the children of the
\* gather (the gather future has its _cancel_requested set)
GatherCancelRequested == sessCancel /\ ~sessMust

\* how the done callback of child t leaves a gather future that was not
\* over: a cancelled or failed child completes it at once with that
\* exception; a child that returned completes it only when it is the last
GatherResult(t) ==
  IF task[t] = "cancelled" THEN "cancelled"
  ELSE IF ChildRaises(t) THEN "failed"
  ELSE IF gatherSeen \cup {t} = Tasks
  THEN (IF GatherCancelRequested THEN "cancelled" ELSE "done")
  ELSE "none"

\* await asyncio.gather(receive_task, send_task): the done callback of a
\* child, run by the loop in its turn.  When it completes the gather future
\* the wake-up of start_client is scheduled; start_client is not resumed in
\* this step.  On a gather future that is already over it does nothing.
GatherCallback(t) ==
  /\ AtHead("cb", t)
  /\ IF outcome = "none"
       THEN /\ gatherSeen' = gatherSeen \cup {t}
            /\ outcome' = GatherResult(t)
            /\ ready' = IF GatherResult(t) # "none"
                          THEN Append(Tail(ready), Handle("wake", "sess"))
                          ELSE Tail(ready)
       ELSE /\ ready' = Tail(ready)
            /\ UNCHANGED << gatherSeen, outcome >>
  /\ UNCHANGED << sessPc, sessCancel, sessMust, mode, hs, cur >>
  /\ UNCHANGED << playerVars, threadVars, discarded, dispVars, conn, task, cancelReq >>
  /\ UNCHANGED << prodVars, mainVars >>
  /\ UNCHANGED poolVars

\* start_client is resumed with the result of the gather and leaves the
\* async with block: the exit of the block waits for the connection to close
SessResume ==
  /\ sessPc = "gather"
  /\ AtHead("wake", "sess")
  /\ sessPc' = "closing"
  /\ outcome' = LeavesWith(outcome)
  /\ ready' = Tail(ready)
  /\ UNCHANGED << sessCancel, sessMust, mode, hs, cur >>
  /\ UNCHANGED << playerVars, threadVars, discarded, dispVars, conn, task, cancelReq, gatherSeen >>
  /\ UNCHANGED << prodVars, mainVars >>
  /\ UNCHANGED poolVars

\* the connection is closed and start_client is over: the wake-up of main,
\* which awaits it, is scheduled
SessClosed ==
  /\ sessPc = "closing"
  /\ LoopFree
  /\ sessPc' = outcome
  /\ conn' = "closed"
  /\ ready' = Append(ready, Handle("wake", "main"))
  /\ UNCHANGED << sessCancel, sessMust, mode, hs, outcome, cur >>
  /\ UNCHANGED << playerVars, threadVars, discarded, dispVars, task, cancelReq, gatherSeen >>
  /\ UNCHANGED << prodVars, mainVars >>
  /\ UNCHANGED poolVars

\* ------------------------------------------------------------------- main
\* cancelling start_client while it waits in a gather that is not over
\* cancels every child that has not finished
CancelTargets == { t \in Tasks : task[t] = "running" }

\* the gather can pass the cancellation on to a child
GatherCancels == sessPc = "gather" /\ outcome = "none" /\ CancelTargets # {}

\* await task (main): start_client is over
MainAwaitDone == sessPc \in SessTerminal

\* the children of the gather, in the order gather cancels them
GatherChildren == << "recv", "send" >>

\* the operator interrupt (the first one).  The runner of asyncio.run cancels
\* main, which waits in "await task": the cancellation goes to start_client
\* and, if that waits in a gather that is not over, to the children that
\* still run.  It can arrive at any statement: a child that is suspended has
\* its wake-up scheduled, a child that is running gets it at its next
\* suspension.  When there is no child to pass it to, start_client raises it
\* itself: where it is suspended (first recv, closing of the connection) or
\* at its next suspension.  main gets CancelledError from "await task" when
\* start_client is over; its except KeyboardInterrupt clause is not entered.
\* An interrupt that comes when start_client is already over and main has
\* not resumed yet finds nothing of the session left to cancel.
Interrupt ==
  /\ mainPc = "await"
  /\ ~interrupted
  /\ interrupted' = TRUE
  /\ IF sessPc \in SessTerminal
       THEN UNCHANGED << sessCancel, sessMust, outcome, cancelReq, ready >>
       ELSE /\ sessCancel' = TRUE
            /\ IF GatherCancels
                 THEN /\ cancelReq' = [t \in Tasks |-> cancelReq[t] \/ t \in CancelTargets]
                      /\ ready' = WakeInOrder(ready, GatherChildren)
                      /\ UNCHANGED << sessMust, outcome >>
                 ELSE /\ sessMust' = (sessPc # "closing")
                      /\ outcome' = IF sessPc = "closing" THEN "cancelled" ELSE outcome
                      /\ UNCHANGED << cancelReq, ready >>
  /\ UNCHANGED << sessPc, mode, hs, mainPc, shutdown, cur >>
  /\ UNCHANGED dispVars
  /\ UNCHANGED << playerVars, threadVars, discarded, conn, task, gatherSeen >>
  /\ UNCHANGED prodVars
  /\ UNCHANGED poolVars

\* await task (main) returns or raises: main is over
MainReturn ==
  /\ mainPc = "await"
  /\ AtHead("wake", "main")
  /\ MainAwaitDone
  /\ mainPc' = "returned"
  /\ ready' = Tail(ready)
  /\ UNCHANGED << interrupted, shutdown, cur >>
  /\ UNCHANGED << playerVars, threadVars, discarded, dispVars, conn, task, cancelReq, gatherSeen >>
  /\ UNCHANGED << prodVars, sessVars >>
  /\ UNCHANGED poolVars

\* asyncio.run(main()): when main is over the runner cancels the tasks left,
\* in no particular order, and runs the loop until they are over
RunShutdown ==
  /\ mainPc = "returned"
  /\ LoopFree
  /\ ~shutdown
  /\ shutdown' = TRUE
  /\ cancelReq' = [t \in Tasks |-> cancelReq[t] \/ task[t] = "running"]
  /\ \E o \in { << "recv", "send" >>, << "send", "recv" >> } :
       ready' = WakeInOrder(ready, o)
  /\ UNCHANGED << mainPc, interrupted, cur >>
  /\ UNCHANGED << playerVars, threadVars, discarded, dispVars, conn, task, gatherSeen >>
  /\ UNCHANGED << prodVars, sessVars >>
  /\ UNCHANGED poolVars

\* ---------------------------------------------------------- specification
Frames ==
  { [kind |-> "text", body |-> b] : b \in TextBodies }
    \cup { [kind |-> "bytes", body |-> b] : b \in AudioBodies }
    \cup { [kind |-> "other", body |-> <<>>] }

Init ==
  /\ PlayerInit
  /\ thr = [t \in Threads |-> Unborn]
  /\ nThreads = 0
  /\ sounding = {}
  /\ rpc = "recv"
  /\ msg = NoMsg
  /\ console = NoPrint
  /\ nFrames = 0
  /\ nItems = 0
  /\ cur = "sess"
  /\ ready = <<>>
  /\ conn = "open"
  /\ task = [t \in Tasks |-> "none"]
  /\ cancelReq = [t \in Tasks |-> FALSE]
  /\ gatherSeen = {}
  /\ ppc = "start"
  /\ nSent = 0
  /\ wireOut = <<>>
  /\ sessPc = HandshakeOrder[1]
  /\ sessCancel = FALSE
  /\ sessMust = FALSE
  /\ mode = "none"
  /\ hs = <<>>
  /\ outcome = "none"
  /\ mainPc = "await"
  /\ interrupted = FALSE
  /\ shutdown = FALSE
  /\ started = <<>>
  /\ discarded = {}
  /\ routed = 0
  /\ PoolInit

Worker ==
  \E t \in Threads : WorkerLoop(t) \/ WorkerOpen(t) \/ WorkerWait(t) \/ WorkerAfter(t)

Device == \E i \in 1..MaxItems : PlaybackEnds(i)

Dispatcher ==
  \/ DispStart
  \/ DispCancelled
  \/ DispSuspend
  \/ \E m \in Frames : DispRecvFrame(m)
  \/ \E e \in RecvErrors : DispRecvError(e)
  \/ DispText
  \/ DispBytes
  \/ DispOther
  \/ SpFlag
  \/ SpPut
  \/ SpSpawn
  \/ StopBegin
  \/ StopJoin
  \/ DispDisplay

Producer ==
  \/ ProdStart
  \/ ProdCancelled
  \/ ProdSetup
  \/ \E r \in Requests : ProdSubmit(r)
  \/ ProdCaptured
  \/ ProdInput
  \/ ProdInputFails
  \/ ProdSend
  \/ ProdSleep

\* recognizer.listen returns in its worker thread (a phrase was heard, or
\* listen raised); no phrase is heard once MaxSends messages were sent
ListenReturns(r) == nSent < MaxSends /\ PoolComplete(r)

\* the worker threads of the executor
Pool == PoolStart \/ \E r \in Requests : ListenReturns(r)

Session ==
  \/ SessAwaitWelcome
  \/ SessRecvWelcome
  \/ SessCancelled
  \/ SessSendCompanion
  \/ \E m \in {"a", "t"} : SessInputMode(m)
  \/ SessInputModeFails
  \/ GetInputDeviceId
  \/ SessCreateTasks
  \/ \E t \in Tasks : GatherCallback(t)
  \/ SessResume
  \/ SessClosed

Main == Interrupt \/ MainReturn \/ RunShutdown

Next == Worker \/ Device \/ Dispatcher \/ Producer \/ Pool \/ Session \/ Main

Spec == Init /\ [][Next]_vars

\* the loop runs a handle of its ready queue
RunsHead ==
  \/ DispStart
  \/ DispCancelled
  \/ ProdStart
  \/ ProdCancelled
  \/ \E t \in Tasks : GatherCallback(t)
  \/ SessResume
  \/ MainReturn

\* the executor used on its own, with calls submitted at any time
SpecPool == Init /\ [][PoolNext]_vars

TypeOK ==
  /\ play_thread \in {None} \cup Threads
  /\ stop_flag \in BOOLEAN
  /\ nThreads \in 0..MaxItems
  /\ nItems \in 0..MaxItems
  /\ nFrames \in 0..MaxFrames
  /\ nSent \in 0..MaxSends
  /\ Len(queue) <= MaxItems
  /\ task \in [Tasks -> {"none", "running"} \cup TaskTerminal]
  /\ cur \in {"none", "recv", "send", "sess"}
  /\ cur \in Tasks => task[cur] = "running"
  /\ cur = "sess" => sessPc \in {"recv_welcome", "send_companion", "input_mode", "device_id", "create_tasks"}
  /\ sessPc \in {"send_companion", "input_mode", "device_id", "create_tasks"} => cur = "sess"
  /\ (task["recv"] = "running" /\ rpc # "recv") => cur = "recv"
  /\ (task["send"] = "running" /\ ppc \in {"setup", "send"}) => cur = "send"
  /\ \A t \in Tasks : (task[t] = "running" /\ cancelReq[t] /\ cur # t) => InReady(t)
  /\ \A i, j \in 1..Len(ready) : ready[i] = ready[j] => i = j
  /\ sessMust => sessCancel
  /\ outcome \in {"none"} \cup SessTerminal
  /\ ppc \in {"start", "setup", "wait", "capture", "send", "sleep", "exit"}
  /\ poolReq \in [Requests -> {"none", "queued", "running", "done", "cancelled"}]

\* handle_audio submits a capture only after the one before was awaited
OneCaptureAwaited ==
  Cardinality({ r \in Requests : poolReq[r] \in {"queued", "running"} }) <= 1

\* ----------------------------------------------------------------- claims
StartedSet == { started[k] : k \in 1..Len(started) }

\* stop_playing has returned and the print that follows it has not run yet
StopReturned == task["recv"] = "running" /\ rpc = "display"

\* C1: when stop_playing returns, no playback worker thread is alive and the
\* playback queue is empty.
ClaimC1 ==
  StopReturned => (AliveThreads = {} /\ queue = <<>>)

\* C2: when stop is called while an item plays and others are queued, the
\* playing item is halted, the worker terminates, and no item that was in the
\* queue when stop was called is ever started.
ClaimC2 ==
  /\ StopReturned => (AliveThreads = {} /\ sounding = {})
  /\ discarded \cap StartedSet = {}

\* C3: for a frame that begins with "[+]", the text is displayed only after
\* stop_playing has returned: at that point no worker is alive and nothing sounds.
TheoremC3 ==
  StopReturned =>
    /\ StartsWith(msg.body, Prefix)
    /\ AliveThreads = {}
    /\ sounding = {}

\* a stop that had a live worker to join has returned, and the text is not shown yet
WitnessC3 ==
  /\ StopReturned
  /\ started # <<>>
  /\ \E t \in Threads : thr[t].st = "dead"

\* C4: once one of the two tasks has completed and gather has been told, the
\* other task is cancelled (or over) and the session is on its way to its end.
ClaimC4 ==
  \A t \in gatherSeen :
    /\ \A u \in Tasks \ {t} : task[u] \in TaskTerminal \/ cancelReq[u]
    /\ outcome # "none"

\* C5: at most one playback worker thread is alive in every reachable state.
TheoremC5 == Cardinality(AliveThreads) <= 1

\* start_playing after a stop_playing: the first thread is over, a second one runs
WitnessC5 ==
  /\ nThreads = 2
  /\ thr[1].st = "dead"
  /\ IsAlive(2)

\* C6: items are started strictly in enqueue order: when an item has been
\* started, every item enqueued before it was started earlier, unless a stop
\* found it in the queue; and an item is not started while another one is
\* still sounding.
ClaimC6 ==
  /\ \A a, b \in 1..Len(started) : a < b => started[a] < started[b]
  /\ \A y \in StartedSet : \A x \in 1..(y - 1) : x \in StartedSet \cup discarded
  /\ Cardinality(sounding) <= 1

\* C7: the handshake is: receive the greeting, send the companion selection,
\* send the mode selection, all before the producer or the dispatcher starts.
ClaimC7 ==
  task["recv"] # "none" =>
    /\ hs = <<"recv_greeting", "send_companion", "send_mode">>
    /\ Len(wireOut) >= 2
    /\ wireOut[1] = "companion"
    /\ wireOut[2] = "mode"

\* C8: for a frame that begins with "[+]" the text displayed is the rest of
\* the frame after the prefix, and no frame is both control and plain text.
ClaimC8 ==
  /\ console.kind = "interrupt" =>
       /\ StartsWith(console.src, Prefix)
       /\ console.text = SubSeq(console.src, Len(Prefix) + 1, Len(console.src))
  /\ console.kind = "plain" =>
       ~StartsWith(console.src, Prefix) /\ console.src # EndMarker

\* C9: a failure to decode one audio item never ends the playback worker and
\* never fails the dispatcher or the session.
ClaimC9 ==
  /\ \A t \in Threads : thr[t].st # "crashed"
  /\ task["recv"] # "failed"

\* C10: after an operator interrupt every task still running has its
\* cancellation requested, and main does not return while a task still runs.
ClaimC10 ==
  interrupted =>
    /\ \A t \in Tasks : task[t] = "running" => cancelReq[t]
    /\ mainPc = "returned" => \A t \in Tasks : task[t] # "running"

\* C11: frames are handled one after the other in arrival order: the
\* dispatcher starts on frame N only when the handling of frame N-1 is
\* complete (text displayed, item enqueued and start_playing returned, or
\* stop_playing returned and the text displayed).
TheoremC11 ==
  /\ routed <= nFrames
  /\ nFrames <= routed + 1
  /\ (task["recv"] = "running" /\ rpc = "dispatch") => routed = nFrames - 1
  /\ (task["recv"] = "running" /\ rpc = "recv") => routed = nFrames

\* the third frame is taken up after an audio frame and an interrupt frame
WitnessC11 ==
  /\ task["recv"] = "running"
  /\ rpc = "dispatch"
  /\ nFrames = 3
  /\ nItems = 1
  /\ console.kind = "interrupt"

\* the dispatcher handles the frame "[end]\n"
EndStep ==
  /\ task["recv"] = "running"
  /\ rpc = "dispatch"
  /\ msg.kind = "text"
  /\ msg.body = EndMarker
  /\ rpc' # rpc

\* C12: for the frame "[end]\n" the dispatcher prints the input prompt once,
\* does not display the marker, and does nothing else: the queue, the stop
\* flag and the worker thread are as before and the next frame is awaited.
TheoremC12 ==
  [][EndStep =>
       /\ console' = [kind |-> "prompt", text |-> PromptText, end |-> <<>>,
                      src |-> EndMarker]
       /\ console'.text # EndMarker
       /\ rpc' = "recv"
       /\ routed' = routed + 1
       /\ UNCHANGED << play_thread, stop_flag, queue, thr, nThreads, discarded >>
    ]_vars

\* the prompt has been printed for a turn-end frame while a worker was alive
WitnessC12 ==
  /\ console.kind = "prompt"
  /\ console.src = EndMarker
  /\ AliveThreads # {}
  /\ rpc = "recv"

\* C13: at most 3 capture calls run in the executor at any time, and a call
\* that is waiting starts only when fewer than 3 are running.
TheoremC13 ==
  /\ [](Cardinality(PoolRunning) <= MaxWorkers)
  /\ [][\A r \in Requests :
          (poolReq[r] = "queued" /\ poolReq'[r] = "running") =>
             /\ Cardinality(PoolRunning) < MaxWorkers
             /\ r = Head(poolQueue)
       ]_vars

\* three calls run and a fourth one waits
WitnessC13 ==
  /\ Cardinality(PoolRunning) = MaxWorkers
  /\ poolQueue # <<>>
  /\ poolReq[4] = "queued"

\* start_playing has returned for item i
Enqueued(i) ==
  /\ i \in 1..nItems
  /\ i = nItems => ~(task["recv"] = "running" /\ rpc \in {"sp_flag", "sp_put", "sp_spawn"})

\* item i has been started, or a live worker is there to start it: it holds
\* the item, or the item waits in the queue
ToBePlayed(i) ==
  \/ i \in StartedSet
  \/ \E t \in Threads : IsAlive(t) /\ thr[t].cur.id = i
  \/ AliveThreads # {} /\ i \in { queue[k].id : k \in 1..Len(queue) }

\* C14: when start_playing has returned, whatever is sounding, at most one
\* worker is alive and the item it enqueued is played: it has been started,
\* or a live worker holds it or will take it from the queue.
ClaimC14 ==
  /\ Cardinality(AliveThreads) <= 1
  /\ \A i \in 1..MaxItems : Enqueued(i) => ToBePlayed(i)

\* C15: a transport failure while the producer sends ends the producer task
\* with the error; gather raises it in start_client, the session terminates
\* as failed, and nothing is sent or reconnected afterwards.
TheoremC15 ==
  /\ []((task["send"] = "failed" /\ "send" \in gatherSeen) =>
          /\ outcome \in {"failed", "cancelled"}
          /\ sessPc \in {"gather", "closing", outcome}
          /\ sessPc = "gather" => \E i \in 1..Len(ready) : ready[i] = Handle("wake", "sess")
          /\ (sessPc = "closing" /\ LoopFree) => ENABLED SessClosed)
  /\ []((task["send"] = "failed" /\ sessPc = "gather" /\ outcome = "none") =>
          \E i \in 1..Len(ready) : ready[i] = Handle("cb", "send"))
  /\ []((LoopFree /\ ready # <<>>) => ENABLED RunsHead)
  /\ [][task["send"] = "failed" =>
          /\ task'["send"] = "failed"
          /\ wireOut' = wireOut
          /\ nSent' = nSent
          /\ (conn = "closed" => conn' = "closed")
       ]_vars

\* the send of the producer failed (which closed the connection while the
\* dispatcher runs) and the failure has been set on the gather future
WitnessC15 ==
  /\ task["send"] = "failed"
  /\ conn = "closed"
  /\ task["recv"] = "running"
  /\ "send" \in gatherSeen
  /\ outcome = "failed"
  /\ sessPc = "gather"

\* C16: a frame that is neither text nor bytes is logged, no further frame is
\* dispatched, and the session terminates.
ClaimC16 ==
  console.kind = "unexpected" =>
    /\ task["recv"] \in {"done", "cancelled"}
    /\ routed = nFrames - 1
    /\ "recv" \in gatherSeen => outcome # "none"

\* C17: when the queue is empty and no stop has been requested, the worker at
\* the head of its loop terminates (it does not stay alive).
ClaimC17 ==
  \A t \in Threads :
    (IsAlive(t) /\ thr[t].pc = "loop" /\ queue = <<>> /\ ~stop_flag) =>
      ENABLED WorkerLoop(t)

QueueIds == { queue[k].id : k \in 1..Len(queue) }

\* C18: once stop_playing has returned, no item that was enqueued before is
\* still in the queue; and while a stop is in progress (flag set, worker
\* alive) the dispatcher is inside stop_playing, so start_playing cannot
\* reset the flag.
ClaimC18 ==
  /\ (task["recv"] = "running" /\ rpc \notin {"stop", "join"}) =>
       discarded \cap QueueIds = {}
  /\ (stop_flag /\ AliveThreads # {}) => (task["recv"] = "running" /\ rpc = "join")

\* C19: no item stays in the queue while no worker is alive to serve it, and
\* no item is started twice.
ClaimC19 ==
  /\ (queue # <<>> /\ ~(task["recv"] = "running" /\ rpc = "sp_spawn")) =>
       AliveThreads # {}
  /\ \A a, b \in 1..Len(started) : started[a] = started[b] => a = b

\* the session is over: start_client has ended, main has returned, the
\* runner has cancelled what was left and both tasks are over
SessionOver ==
  /\ sessPc \in SessTerminal
  /\ mainPc = "returned"
  /\ shutdown
  /\ \A t \in Tasks : task[t] # "running"

\* C20: when the session is over no playback worker thread is alive.
ClaimC20 == SessionOver => AliveThreads = {}

====
